---- MODULE Spec2Model ----
(***************************************************************************)
(* A model of the ingestion pipeline of crawl4-mcp:                        *)
(*   - app/crud/crawled_pages.py : batch_delete_crawled_pages_by_urls and  *)
(*     add_documents_to_supabase (delete-then-insert with fallbacks),      *)
(*   - app/crud/sources.py       : update_source_info (update-then-insert),*)
(*   - app/utils/chunk_util.py   : smart_chunk_markdown,                   *)
(*   - app/crawl4_mcp.py         : the tools crawl_single_page and         *)
(*     smart_crawl_with_auto_sitemap, and the recursive link crawler the   *)
(*     second one calls.                                                   *)
(* The Supabase store is the environment: every store operation either     *)
(* takes effect or raises, chosen nondeterministically.                    *)
(***************************************************************************)
EXTENDS Bags, FiniteSets, Integers, Sequences, TLC

VARIABLES
    \* ---- crawled_pages.py ----
    crawled_pages,   \* the crawled_pages table: a bag of rows
    op,              \* which function runs: "add" or "batch_delete"
    args,            \* the arguments of the call (the same in every call)
    calls,           \* the calls started so far: <<>>, <<1>>, <<1, 2>>
    pcU,             \* position in the running call
    unique_urls,     \* list(set(urls)) as a set
    todo_urls,       \* URLs the per-URL fallback loop has still to visit
    i,               \* start index of the current batch (0-based, as in the code)
    batch_data,      \* rows of the current batch
    retry,           \* loop variable of the retry loop
    retry_delay,     \* current backoff
    rec_k,           \* index of the next row of the individual-insert loop
    exc,             \* exception that left the call, "none" if it returned
    \* ---- observations of the running call (history) ----
    bulk_del,        \* outcome of the bulk delete: "none", "ok", "failed"
    del_log,         \* per URL: the outcomes of its per-URL deletes, in order
    bulk_log,        \* outcomes of the bulk inserts of the current batch
    sleeps,          \* waits taken between the bulk inserts of the current batch
    ind_log,         \* per row of the current batch: outcomes of its individual inserts
    issued,          \* indices (1-based) of the rows an insert was issued for
    stored,          \* indices (1-based) of the rows an insert stored
    store_after,     \* per finished call: the table when it returned
    effective,       \* every delete and every insert so far took effect
    \* ---- sources.py ----
    sources,         \* the sources table: a bag of rows
    unique_key,      \* whether the table rejects a second row of a source_id
    now,             \* the store's clock, read by 'now()'
    pcS,             \* per caller: position in update_source_info
    sargs,           \* per caller: the arguments of its call
    result_data,     \* per caller: result.data of its update: "none", "empty", "rows"
    outcome,         \* per caller: what the call printed: "none", "updated", "created", "error"
    began,           \* per caller: the callers that had returned when it was called
    \* ---- chunk_util.py ----
    text,            \* the text to split: a sequence of characters
    chunk_size,      \* the window width
    start,           \* the cursor (0-based, as in the code)
    chunks,          \* the chunks appended so far
    cuts,            \* the end of every window cut so far (history)
    pcC,             \* position in smart_chunk_markdown
    \* ---- crawl4_mcp.py: the two tools ----
    tool,            \* the tool called: "crawl_single_page" or "smart_crawl_with_auto_sitemap"
    tool_url,        \* its url argument
    pcT,             \* position in the running tool
    branch,          \* the branch lines 131-145 took: "txt", "sitemap", "page"
    url_class,       \* what is_txt(url) and is_sitemap(url) return
    found_sitemap,   \* what auto_get_sitemap_url returned: "unset", "None" or a URL's name
    sitemap_urls,    \* what parse_sitemap returned, or not given
    result,          \* what crawler.arun returned, or not given
    crawl_results,   \* what the crawl strategy returned
    crawl_type,      \* the local crawl_type, "unset" before it is assigned
    file_paths,      \* the paths save_to_md returned so far
    next_result,     \* index of the next of crawl_results to export
    ran,             \* the crawl strategies called so far, in order (history)
    raised,          \* the step that raised inside the try, "none" if none did (history)
    logged,          \* whether ctx.logger.error was called
    response,        \* what the tool returned
    propagated,      \* the exception that left the tool, "none" if none
    \* ---- the recursive link crawler ----
    seed_urls,       \* the seeds of the crawl
    max_depth,       \* the deepest level fetched
    max_concurrent,  \* the width of the admission gate
    visited,         \* the URLs marked visited
    depth,           \* the current depth level
    level,           \* the URLs of the current level
    pending,         \* URLs of the level waiting at the gate
    in_flight,       \* URLs whose fetch has started and not resolved
    next_level,      \* URLs found for the next level
    results_all,     \* the results so far: a bag of URLs
    fetched,         \* per URL: the fetches of it started, the depth of the last (history)
    enqueued,        \* per URL: the depth it was enqueued at (history)
    parent,          \* per URL: the page it was first discovered from (history)
    rediscovered,    \* URLs a link named while their fetch was in flight (history)
    pcK              \* position in the crawl

varsU == <<crawled_pages, op, args, calls, pcU, unique_urls, todo_urls, i,
           batch_data, retry, retry_delay, rec_k, exc, bulk_del, del_log,
           bulk_log, sleeps, ind_log, issued, stored, store_after,
           effective>>

varsS == <<sources, unique_key, now, pcS, sargs, result_data, outcome, began>>

varsC == <<text, chunk_size, start, chunks, cuts, pcC>>

varsT == <<tool, tool_url, pcT, branch, url_class, found_sitemap, sitemap_urls, result,
           crawl_results, crawl_type, file_paths, next_result, ran, raised,
           logged, response, propagated>>

varsK == <<seed_urls, max_depth, max_concurrent, visited, depth, level,
           pending, in_flight, next_level, results_all, fetched, enqueued,
           parent, rediscovered, pcK>>

vars == <<varsU, varsS, varsC, varsT, varsK>>

----------------------------------------------------------------------------
(* Bounds of the model *)

\* longest urls / contents list of a call
MaxDocs == 2
\* most pieces (see Pieces) a text is made of
MaxPieces == 4
\* largest chunk_size
MaxChunkSize == 8
\* largest batch_size of a call
MaxBatch == 2
\* longest list a crawl strategy or parse_sitemap returns
MaxResults == 2
\* pages of the site crawled
MaxPages == 3
\* most links of a fetched page
MaxLinks == 2
\* largest max_depth of a crawl
MaxDepth == 2
\* largest max_concurrent of a crawl
MaxConcurrent == 2

----------------------------------------------------------------------------
(* Values *)

None == "None"

\* embeddings: None (the default), or a list
NoEmbeddings == [given |-> FALSE, list |-> <<>>]

\* URLs as urlparse sees them: a network location and a path
UrlA == [netloc |-> "a.com", path |-> "/p"]
UrlB == [netloc |-> "", path |-> "notes.txt"]
UrlC == [netloc |-> "a.com", path |-> "/q"]

\* URLs a call may name
CallUrls == {UrlA, UrlB}
\* URLs the table may hold rows of before the first call
AllUrls == {UrlA, UrlB, UrlC}

\* chunk_numbers: the chunks numbered from 0 as a caller numbers them, or all 0
ChunkNumberLists(n) == {[j \in 1..n |-> j - 1], [j \in 1..n |-> 0]}
Contents == {"x"}
Metadatas == {"m"}

SeqsUpTo(S, n) == UNION {[1..m -> S] : m \in 0..n}

Min(a, b) == IF a < b THEN a ELSE b

\* source_id = parsed_url.netloc or parsed_url.path
SourceIdOf(url) == IF url.netloc # "" THEN url.netloc ELSE url.path

\* The row built for index j (1-based) of the argument lists
DataOf(a, j) ==
    [url |-> a.urls[j],
     chunk_number |-> a.chunk_numbers[j],
     content |-> a.contents[j],
     metadata |-> a.metadatas[j],
     source_id |-> SourceIdOf(a.urls[j]),
     embedding |-> IF a.embeddings.given THEN a.embeddings.list[j] ELSE None]

\* A row left in the table by an earlier ingestion
OldRow(url) ==
    [url |-> url, chunk_number |-> 0, content |-> "old", metadata |-> "m",
     source_id |-> SourceIdOf(url), embedding |-> None]

\* The bag of the rows of a sequence
RowsBag(rows) ==
    LET S == {rows[j] : j \in DOMAIN rows}
    IN  [r \in S |-> Cardinality({j \in DOMAIN rows : rows[j] = r})]

\* Mutant: the filter matches no row
DeleteIn_NoMatch(table, urls) == table

\* delete().in_("url", urls) / delete().eq("url", url): drop every matching row
DeleteIn(table, urls) ==
    [r \in {x \in DOMAIN table : x.url \notin urls} |-> table[r]]

\* insert(rows): add the rows
InsertRows(table, rows) == table (+) RowsBag(rows)

max_retries == 3
initial_retry_delay == 1

----------------------------------------------------------------------------
(* crawled_pages.py: the calls *)

UrlSet(a) == {a.urls[j] : j \in DOMAIN a.urls}

NoLog == [u \in CallUrls |-> <<>>]

\* The argument tuples of add_documents_to_supabase: chunk_numbers, metadatas
\* and embeddings (when given) are as long as contents; urls is any list.
AddArgs ==
    {[urls |-> us, chunk_numbers |-> cn, contents |-> cs, metadatas |-> ms,
      embeddings |-> em, batch_size |-> bs] :
        us \in SeqsUpTo(CallUrls, MaxDocs),
        cn \in UNION {ChunkNumberLists(n) : n \in 0..MaxDocs},
        cs \in SeqsUpTo(Contents, MaxDocs), ms \in SeqsUpTo(Metadatas, MaxDocs),
        em \in {NoEmbeddings} \cup
               {[given |-> TRUE, list |-> l] : l \in SeqsUpTo({"e"}, MaxDocs)},
        bs \in 1..MaxBatch}

WellFormed(a) ==
    /\ Len(a.chunk_numbers) = Len(a.contents)
    /\ Len(a.metadatas) = Len(a.contents)
    /\ a.embeddings.given => Len(a.embeddings.list) = Len(a.contents)

\* The argument of batch_delete_crawled_pages_by_urls is urls alone
DeleteArgs ==
    {[urls |-> us, chunk_numbers |-> <<>>, contents |-> <<>>, metadatas |-> <<>>,
      embeddings |-> NoEmbeddings, batch_size |-> 1] : us \in SeqsUpTo(CallUrls, MaxDocs)}

\* The tables the first call may find: any rows of earlier ingestions
InitialTables == {SetToBag({OldRow(u) : u \in S}) : S \in SUBSET AllUrls}

InitU ==
    /\ op \in {"add", "batch_delete"}
    /\ args \in IF op = "add" THEN {a \in AddArgs : WellFormed(a)} ELSE DeleteArgs
    /\ crawled_pages \in InitialTables
    /\ calls = <<>>
    /\ pcU = "idle"
    /\ unique_urls = {}
    /\ todo_urls = {}
    /\ i = 0
    /\ batch_data = <<>>
    /\ retry = 0
    /\ retry_delay = initial_retry_delay
    /\ rec_k = 1
    /\ exc = "none"
    /\ bulk_del = "none"
    /\ del_log = NoLog
    /\ bulk_log = <<>>
    /\ sleeps = <<>>
    /\ ind_log = <<>>
    /\ issued = {}
    /\ stored = {}
    /\ store_after = <<>>
    /\ effective = TRUE

\* The function is entered (again, with the same arguments): line 6 / line 50
StartCall ==
    /\ pcU \in {"idle", "done", "raised"}
    /\ calls \in {<<>>, <<1>>}
    /\ calls' = Append(calls, Len(calls) + 1)
    /\ unique_urls' = UrlSet(args)
    /\ todo_urls' = {}
    /\ pcU' = "delete"
    /\ i' = 0
    /\ batch_data' = <<>>
    /\ retry' = 0
    /\ retry_delay' = initial_retry_delay
    /\ rec_k' = 1
    /\ exc' = "none"
    /\ bulk_del' = "none"
    /\ del_log' = NoLog
    /\ bulk_log' = <<>>
    /\ sleeps' = <<>>
    /\ ind_log' = <<>>
    /\ issued' = {}
    /\ stored' = {}
    /\ UNCHANGED <<crawled_pages, op, args, store_after, effective>>
    /\ UNCHANGED <<varsS, varsC, varsT, varsK>>

\* Where control goes when the delete phase is over
AfterDelete ==
    IF op = "add"
    THEN /\ pcU' = "batch"
         /\ UNCHANGED store_after
    ELSE /\ pcU' = "done"
         /\ store_after' = Append(store_after, crawled_pages')

UNotDelete ==
    UNCHANGED <<op, args, calls, unique_urls, i, batch_data, retry, retry_delay,
                rec_k, exc, bulk_log, sleeps, ind_log, issued, stored, varsS,
                varsC, varsT, varsK>>

\* if unique_urls: is false: no delete is issued
SkipDelete ==
    /\ pcU = "delete"
    /\ unique_urls = {}
    /\ UNCHANGED <<crawled_pages, todo_urls, bulk_del, del_log, effective>>
    /\ AfterDelete
    /\ UNotDelete

\* Mutant: the bulk delete is keyed by one URL (eq) instead of the set (in_)
BulkDeleteOk_OneUrl ==
    /\ pcU = "delete"
    /\ unique_urls # {}
    /\ \E u \in unique_urls : crawled_pages' = DeleteIn(crawled_pages, {u})
    /\ bulk_del' = "ok"
    /\ AfterDelete
    /\ UNCHANGED <<todo_urls, del_log, effective>>
    /\ UNotDelete

\* delete().in_("url", unique_urls).execute() takes effect
BulkDeleteOk ==
    /\ pcU = "delete"
    /\ unique_urls # {}
    /\ crawled_pages' = DeleteIn(crawled_pages, unique_urls)
    /\ bulk_del' = "ok"
    /\ AfterDelete
    /\ UNCHANGED <<todo_urls, del_log, effective>>
    /\ UNotDelete

\* ... or raises: the handler starts the per-URL loop
BulkDeleteFail ==
    /\ pcU = "delete"
    /\ unique_urls # {}
    /\ bulk_del' = "failed"
    /\ todo_urls' = unique_urls
    /\ pcU' = "fallback"
    /\ UNCHANGED <<crawled_pages, del_log, effective, store_after>>
    /\ UNotDelete

\* The loop for url in unique_urls moves on after the delete of url
AfterUrlDelete(url) ==
    /\ todo_urls' = todo_urls \ {url}
    /\ IF todo_urls' = {}
       THEN AfterDelete
       ELSE /\ pcU' = "fallback"
            /\ UNCHANGED store_after

\* delete().eq("url", url).execute() takes effect
UrlDeleteOk(url) ==
    /\ pcU = "fallback"
    /\ url \in todo_urls
    /\ crawled_pages' = DeleteIn(crawled_pages, {url})
    /\ del_log' = [del_log EXCEPT ![url] = Append(@, "ok")]
    /\ AfterUrlDelete(url)
    /\ UNCHANGED <<bulk_del, effective>>
    /\ UNotDelete

\* Mutant: no inner try: the first failing per-URL delete ends the loop
UrlDeleteFail_Abort(url) ==
    /\ pcU = "fallback"
    /\ url \in todo_urls
    /\ del_log' = [del_log EXCEPT ![url] = Append(@, "failed")]
    /\ effective' = FALSE
    /\ UNCHANGED <<crawled_pages, bulk_del>>
    /\ todo_urls' = {}
    /\ AfterDelete
    /\ UNotDelete

\* ... or raises: the inner handler prints and the loop goes on
UrlDeleteFail(url) ==
    /\ pcU = "fallback"
    /\ url \in todo_urls
    /\ del_log' = [del_log EXCEPT ![url] = Append(@, "failed")]
    /\ effective' = FALSE
    /\ UNCHANGED <<crawled_pages, bulk_del>>
    /\ AfterUrlDelete(url)
    /\ UNotDelete

\* ---- the insert phase (add_documents_to_supabase only) ----

UNotInsert ==
    UNCHANGED <<op, args, calls, unique_urls, todo_urls, bulk_del, del_log, varsS,
                varsC, varsT, varsK>>

\* batch_end = min(i + batch_size, len(contents))
BatchEnd == Min(i + args.batch_size, Len(args.contents))

\* 1-based indices of the rows of the current batch
BatchIndices == (i + 1)..BatchEnd

\* for i in range(0, len(contents), batch_size) is exhausted: the call returns
Return ==
    /\ pcU = "batch"
    /\ i >= Len(args.contents)
    /\ pcU' = "done"
    /\ store_after' = Append(store_after, crawled_pages)
    /\ UNCHANGED <<crawled_pages, i, batch_data, retry, retry_delay, rec_k, exc,
                   bulk_log, sleeps, ind_log, issued, stored, effective>>
    /\ UNotInsert

\* Lines 64-88: the rows of the batch are built, the retry loop starts
BuildBatch ==
    /\ pcU = "batch"
    /\ i < Len(args.contents)
    /\ BatchEnd <= Len(args.urls)
    /\ batch_data' = [j \in 1..(BatchEnd - i) |-> DataOf(args, i + j)]
    /\ retry' = 0
    /\ retry_delay' = initial_retry_delay
    /\ bulk_log' = <<>>
    /\ sleeps' = <<>>
    /\ ind_log' = [j \in 1..(BatchEnd - i) |-> <<>>]
    /\ rec_k' = 1
    /\ pcU' = "insert"
    /\ UNCHANGED <<crawled_pages, i, exc, issued, stored, store_after, effective>>
    /\ UNotInsert

\* Line 73: batch_urls[j] with urls shorter than contents raises IndexError,
\* outside every try block
BuildBatchIndexError ==
    /\ pcU = "batch"
    /\ i < Len(args.contents)
    /\ BatchEnd > Len(args.urls)
    /\ pcU' = "raised"
    /\ exc' = "IndexError"
    /\ store_after' = Append(store_after, crawled_pages)
    /\ UNCHANGED <<crawled_pages, i, batch_data, retry, retry_delay, rec_k,
                   bulk_log, sleeps, ind_log, issued, stored, effective>>
    /\ UNotInsert

\* Line 91: insert(batch_data).execute() stores the batch; break
InsertOk ==
    /\ pcU = "insert"
    /\ crawled_pages' = InsertRows(crawled_pages, batch_data)
    /\ bulk_log' = Append(bulk_log, "ok")
    /\ issued' = issued \cup BatchIndices
    /\ stored' = stored \cup BatchIndices
    /\ i' = i + args.batch_size
    /\ pcU' = "batch"
    /\ UNCHANGED <<batch_data, retry, retry_delay, rec_k, exc, sleeps, ind_log,
                   store_after, effective>>
    /\ UNotInsert

\* Lines 93-100: it raises; sleep and retry, or fall back to the rows one by one
InsertFail ==
    /\ pcU = "insert"
    /\ bulk_log' = Append(bulk_log, "failed")
    /\ issued' = issued \cup BatchIndices
    /\ pcU' = IF retry < max_retries - 1 THEN "sleep" ELSE "individual"
    /\ UNCHANGED <<crawled_pages, i, batch_data, retry, retry_delay, rec_k, exc,
                   sleeps, ind_log, stored, store_after, effective>>
    /\ UNotInsert

\* Mutant: the backoff is not doubled
Sleep_NoDoubling ==
    /\ pcU = "sleep"
    /\ sleeps' = Append(sleeps, retry_delay)
    /\ retry_delay' = retry_delay
    /\ retry' = retry + 1
    /\ pcU' = "insert"
    /\ UNCHANGED <<crawled_pages, i, batch_data, rec_k, exc, bulk_log, ind_log,
                   issued, stored, store_after, effective>>
    /\ UNotInsert

\* Lines 96-97 and the next iteration of for retry in range(max_retries)
Sleep ==
    /\ pcU = "sleep"
    /\ sleeps' = Append(sleeps, retry_delay)
    /\ retry_delay' = retry_delay * 2
    /\ retry' = retry + 1
    /\ pcU' = "insert"
    /\ UNCHANGED <<crawled_pages, i, batch_data, rec_k, exc, bulk_log, ind_log,
                   issued, stored, store_after, effective>>
    /\ UNotInsert

\* The loop for record in batch_data moves on; after the last row the retry
\* loop is over too (this was its last iteration) and the next batch follows
AfterRecord ==
    /\ rec_k' = rec_k + 1
    /\ IF rec_k = Len(batch_data)
       THEN /\ pcU' = "batch"
            /\ i' = i + args.batch_size
       ELSE /\ pcU' = "individual"
            /\ UNCHANGED i

\* Line 103: insert(record).execute() stores the row
IndividualOk ==
    /\ pcU = "individual"
    /\ crawled_pages' = InsertRows(crawled_pages, <<batch_data[rec_k]>>)
    /\ ind_log' = [ind_log EXCEPT ![rec_k] = Append(@, "ok")]
    /\ stored' = stored \cup {i + rec_k}
    /\ AfterRecord
    /\ UNCHANGED <<batch_data, retry, retry_delay, exc, bulk_log, sleeps, issued,
                   store_after, effective>>
    /\ UNotInsert

\* Mutant: no inner try: the first failing individual insert ends the batch
IndividualFail_Abort ==
    /\ pcU = "individual"
    /\ ind_log' = [ind_log EXCEPT ![rec_k] = Append(@, "failed")]
    /\ effective' = FALSE
    /\ rec_k' = rec_k + 1
    /\ pcU' = "batch"
    /\ i' = i + args.batch_size
    /\ UNCHANGED <<crawled_pages, batch_data, retry, retry_delay, exc, bulk_log,
                   sleeps, issued, stored, store_after>>
    /\ UNotInsert

\* Lines 104-105: it raises; the handler prints and the loop goes on
IndividualFail ==
    /\ pcU = "individual"
    /\ ind_log' = [ind_log EXCEPT ![rec_k] = Append(@, "failed")]
    /\ effective' = FALSE
    /\ AfterRecord
    /\ UNCHANGED <<crawled_pages, batch_data, retry, retry_delay, exc, bulk_log,
                   sleeps, issued, stored, store_after>>
    /\ UNotInsert

NextU ==
    \/ StartCall
    \/ SkipDelete
    \/ BulkDeleteOk
    \/ BulkDeleteFail
    \/ \E url \in CallUrls : UrlDeleteOk(url)
    \/ \E url \in CallUrls : UrlDeleteFail(url)
    \/ Return
    \/ BuildBatch
    \/ BuildBatchIndexError
    \/ InsertOk
    \/ InsertFail
    \/ Sleep
    \/ IndividualOk
    \/ IndividualFail

----------------------------------------------------------------------------
(* sources.py: update_source_info, called by concurrent callers *)

Callers == {"c1", "c2"}

SourceIds == {SourceIdOf(UrlA), SourceIdOf(UrlB)}
Summaries == {"s1", "s2"}
WordCounts == {10, 20}

SourceArgs ==
    [source_id : SourceIds, summary : Summaries, word_count : WordCounts]

\* A row an earlier call left
OldSource(sid) ==
    [source_id |-> sid, summary |-> "old", total_word_count |-> 0, updated_at |-> 0]

\* Rows of the table with a given source_id
RowsOf(table, sid) == {r \in DOMAIN table : r.source_id = sid}

\* Number of rows of the table with a given source_id
CountOf(table, sid) ==
    BagCardinality([r \in RowsOf(table, sid) |-> table[r]])

\* update({...}).eq('source_id', sid): every matching row gets the new values
UpdateRows(table, sid, summary, word_count, t) ==
    LET Upd(r) == IF r.source_id = sid
                  THEN [r EXCEPT !.summary = summary,
                                 !.total_word_count = word_count,
                                 !.updated_at = t]
                  ELSE r
        Targets == {Upd(r) : r \in DOMAIN table}
    IN  [x \in Targets |->
            BagCardinality([r \in {y \in DOMAIN table : Upd(y) = x} |-> table[r]])]

\* The row insert({...}) adds; updated_at is left to the table (0: not set)
NewSource(a) ==
    [source_id |-> a.source_id, summary |-> a.summary,
     total_word_count |-> a.word_count, updated_at |-> 0]

InitS ==
    /\ sources \in {SetToBag({OldSource(sid) : sid \in S}) : S \in SUBSET SourceIds}
    /\ unique_key \in BOOLEAN
    /\ now = 1
    /\ pcS = [c \in Callers |-> "idle"]
    /\ sargs \in [Callers -> SourceArgs]
    /\ result_data = [c \in Callers |-> "none"]
    /\ outcome = [c \in Callers |-> "none"]
    /\ began = [c \in Callers |-> {}]

\* update_source_info is called
SourceCall(c) ==
    /\ pcS[c] = "idle"
    /\ pcS' = [pcS EXCEPT ![c] = "update"]
    /\ began' = [began EXCEPT ![c] = {d \in Callers : pcS[d] = "done"}]
    /\ UNCHANGED <<sources, unique_key, now, sargs, result_data, outcome>>
    /\ UNCHANGED <<varsU, varsC, varsT, varsK>>

\* Mutant: the insert follows the update whatever result.data is (append)
SourceUpdateOk_AlwaysInsert(c) ==
    /\ pcS[c] = "update"
    /\ sources' = UpdateRows(sources, sargs[c].source_id, sargs[c].summary,
                             sargs[c].word_count, now)
    /\ now' = now + 1
    /\ result_data' = [result_data EXCEPT ![c] =
                          IF RowsOf(sources, sargs[c].source_id) = {}
                          THEN "empty" ELSE "rows"]
    /\ pcS' = [pcS EXCEPT ![c] = "insert"]
    /\ UNCHANGED outcome
    /\ UNCHANGED <<unique_key, sargs, began>>
    /\ UNCHANGED <<varsU, varsC, varsT, varsK>>

\* Lines 17-24: the update is executed; if not result.data picks the branch
SourceUpdateOk(c) ==
    /\ pcS[c] = "update"
    /\ sources' = UpdateRows(sources, sargs[c].source_id, sargs[c].summary,
                             sargs[c].word_count, now)
    /\ now' = now + 1
    /\ IF RowsOf(sources, sargs[c].source_id) = {}
       THEN /\ result_data' = [result_data EXCEPT ![c] = "empty"]
            /\ pcS' = [pcS EXCEPT ![c] = "insert"]
            /\ UNCHANGED outcome
       ELSE /\ result_data' = [result_data EXCEPT ![c] = "rows"]
            /\ pcS' = [pcS EXCEPT ![c] = "done"]
            /\ outcome' = [outcome EXCEPT ![c] = "updated"]
    /\ UNCHANGED <<unique_key, sargs, began>>
    /\ UNCHANGED <<varsU, varsC, varsT, varsK>>

\* Mutant: no handler: the exception leaves update_source_info
SourceError_Raise(c) ==
    /\ pcS' = [pcS EXCEPT ![c] = "raised"]
    /\ outcome' = [outcome EXCEPT ![c] = "error"]

\* Lines 34-35: a store operation raised; the handler prints and the call returns
SourceError(c) ==
    /\ pcS' = [pcS EXCEPT ![c] = "done"]
    /\ outcome' = [outcome EXCEPT ![c] = "error"]

\* The update raises
SourceUpdateFail(c) ==
    /\ pcS[c] = "update"
    /\ SourceError(c)
    /\ UNCHANGED <<sources, unique_key, now, sargs, result_data, began>>
    /\ UNCHANGED <<varsU, varsC, varsT, varsK>>

\* Mutant: a native upsert: a row of the source_id is replaced by the new row
SourceInsertOk_Upsert(c) ==
    /\ pcS[c] = "insert"
    /\ sources' = [r \in DOMAIN sources \ RowsOf(sources, sargs[c].source_id)
                      |-> sources[r]] (+) SetToBag({NewSource(sargs[c])})
    /\ pcS' = [pcS EXCEPT ![c] = "done"]
    /\ outcome' = [outcome EXCEPT ![c] = "created"]
    /\ UNCHANGED <<unique_key, now, sargs, result_data, began>>
    /\ UNCHANGED <<varsU, varsC, varsT, varsK>>

\* Lines 25-30: the insert adds the row
SourceInsertOk(c) ==
    /\ pcS[c] = "insert"
    /\ ~(unique_key /\ RowsOf(sources, sargs[c].source_id) # {})
    /\ sources' = sources (+) SetToBag({NewSource(sargs[c])})
    /\ pcS' = [pcS EXCEPT ![c] = "done"]
    /\ outcome' = [outcome EXCEPT ![c] = "created"]
    /\ UNCHANGED <<unique_key, now, sargs, result_data, began>>
    /\ UNCHANGED <<varsU, varsC, varsT, varsK>>

\* The insert raises (the store failed, or the key rejected the row)
SourceInsertFail(c) ==
    /\ pcS[c] = "insert"
    /\ SourceError(c)
    /\ UNCHANGED <<sources, unique_key, now, sargs, result_data, began>>
    /\ UNCHANGED <<varsU, varsC, varsT, varsK>>

NextS ==
    \/ \E c \in Callers : SourceCall(c)
    \/ \E c \in Callers : SourceUpdateOk(c)
    \/ \E c \in Callers : SourceUpdateFail(c)
    \/ \E c \in Callers : SourceInsertOk(c)
    \/ \E c \in Callers : SourceInsertFail(c)

----------------------------------------------------------------------------
(* chunk_util.py: smart_chunk_markdown *)

\* Characters. The backtick and the three Chinese marks are named, the rest
\* stand for themselves.
Backtick == "backtick"
SP == " "
NL == "\n"
CnPeriod == "cn_period"
CnExcl == "cn_excl"
CnQues == "cn_ques"

\* What str.strip() removes
Whitespace == {SP, NL}

cn_sentence_seps == <<CnPeriod, CnExcl, CnQues>>
en_sentence_sep == <<".", SP>>
fence == <<Backtick, Backtick, Backtick>>
paragraph_break == <<NL, NL>>

\* Texts are made of these pieces: single characters and whole boundary tokens
Pieces == {<<"a">>, <<SP>>, <<NL>>, <<".">>, <<CnPeriod>>,
           en_sentence_sep, paragraph_break, fence}

RECURSIVE Concat(_)
Concat(ss) == IF ss = <<>> THEN <<>> ELSE Head(ss) \o Concat(Tail(ss))

Texts == {Concat(ps) : ps \in SeqsUpTo(Pieces, MaxPieces)}

Max(S) == CHOOSE x \in S : \A y \in S : y <= x

\* s[a:b] of Python for 0 <= a, 0 <= b
Slice(s, a, b) == SubSeq(s, a + 1, Min(b, Len(s)))

\* s.rfind(pat): the highest 0-based index where pat occurs in s, or -1
RFind(s, pat) ==
    LET At == {k \in 0..(Len(s) - Len(pat)) :
                  \A m \in 1..Len(pat) : s[k + m] = pat[m]}
    IN  IF At = {} THEN -1 ELSE Max(At)

\* s.strip()
Strip(s) ==
    LET Ink == {k \in 1..Len(s) : s[k] \notin Whitespace}
    IN  IF Ink = {} THEN <<>>
        ELSE SubSeq(s, CHOOSE k \in Ink : \A m \in Ink : k <= m, Max(Ink))

\* Mutant: any index found counts, the 30% threshold is not applied
Past30_AnyIndex(idx, size) == idx >= 0

\* idx > chunk_size * 0.3 (the float product decides as the exact one does
\* for every chunk_size below 2000)
Past30(idx, size) == 10 * idx > 3 * size

\* Lines 33-37: the highest index of a Chinese separator in chunk, or -1
LastCnSep(chunk) ==
    Max({-1} \cup {RFind(chunk, <<cn_sentence_seps[k]>>) : k \in DOMAIN cn_sentence_seps})

\* Mutant: the boundaries are searched in the rest of the text, not in the window
CutEnd_RestOfText(t, from, size) ==
    LET end == from + size
        chunk == Slice(t, from, Len(t))
        code_block == RFind(chunk, fence)
        last_break == RFind(chunk, paragraph_break)
        last_cn_sep == LastCnSep(chunk)
        last_en_sep == RFind(chunk, en_sentence_sep)
        last_sep == IF last_cn_sep > last_en_sep THEN last_cn_sep ELSE last_en_sep
    IN  IF code_block # -1 /\ Past30(code_block, size)
        THEN from + code_block
        ELSE IF last_break # -1
        THEN (IF Past30(last_break, size) THEN from + last_break ELSE end)
        ELSE IF Past30(last_sep, size)
        THEN (IF last_sep = last_en_sep
              THEN from + last_en_sep + Len(en_sentence_sep)
              ELSE from + last_cn_sep + 1)
        ELSE end

\* Mutant: the paragraph break is looked for before the fence
CutEnd_ParagraphFirst(t, from, size) ==
    LET end == from + size
        chunk == Slice(t, from, end)
        code_block == RFind(chunk, fence)
        last_break == RFind(chunk, paragraph_break)
        last_cn_sep == LastCnSep(chunk)
        last_en_sep == RFind(chunk, en_sentence_sep)
        last_sep == IF last_cn_sep > last_en_sep THEN last_cn_sep ELSE last_en_sep
    IN  IF last_break # -1 /\ Past30(last_break, size)
        THEN from + last_break
        ELSE IF code_block # -1
        THEN (IF Past30(code_block, size) THEN from + code_block ELSE end)
        ELSE IF Past30(last_sep, size)
        THEN (IF last_sep = last_en_sep
              THEN from + last_en_sep + Len(en_sentence_sep)
              ELSE from + last_cn_sep + 1)
        ELSE end

\* Mutant: the window searched reaches one sentence terminator past its edge
CutEnd_LookAhead(t, from, size) ==
    LET end == from + size
        chunk == Slice(t, from, end + Len(en_sentence_sep))
        code_block == RFind(chunk, fence)
        last_break == RFind(chunk, paragraph_break)
        last_cn_sep == LastCnSep(chunk)
        last_en_sep == RFind(chunk, en_sentence_sep)
        last_sep == IF last_cn_sep > last_en_sep THEN last_cn_sep ELSE last_en_sep
    IN  IF code_block # -1 /\ Past30(code_block, size)
        THEN from + code_block
        ELSE IF last_break # -1
        THEN (IF Past30(last_break, size) THEN from + last_break ELSE end)
        ELSE IF Past30(last_sep, size)
        THEN (IF last_sep = last_en_sep
              THEN from + last_en_sep + Len(en_sentence_sep)
              ELSE from + last_cn_sep + 1)
        ELSE end

\* Lines 18-48: the end of a window that is not the last one
CutEnd(t, from, size) ==
    LET end == from + size
        chunk == Slice(t, from, end)
        code_block == RFind(chunk, fence)
        last_break == RFind(chunk, paragraph_break)
        last_cn_sep == LastCnSep(chunk)
        last_en_sep == RFind(chunk, en_sentence_sep)
        last_sep == IF last_cn_sep > last_en_sep THEN last_cn_sep ELSE last_en_sep
    IN  IF code_block # -1 /\ Past30(code_block, size)
        THEN from + code_block
        ELSE IF last_break # -1
        THEN (IF Past30(last_break, size) THEN from + last_break ELSE end)
        ELSE IF Past30(last_sep, size)
        THEN (IF last_sep = last_en_sep
              THEN from + last_en_sep + Len(en_sentence_sep)
              ELSE from + last_cn_sep + 1)
        ELSE end

\* The call of the documented example: a sentence whose terminator starts
\* right at the edge of the first window
Example ==
    [text |-> <<"a", "b", "c", "d", "e", "f", "g", "h", "i", "j", ".", SP,
                "k", "l", "m", "n", "o">>,
     chunk_size |-> 10]

InitC ==
    /\ \/ text \in Texts /\ chunk_size \in 1..MaxChunkSize
       \/ text = Example.text /\ chunk_size = Example.chunk_size
    /\ start = 0
    /\ chunks = <<>>
    /\ cuts = <<>>
    /\ pcC = "loop"

\* while start < text_length is false: return chunks
ChunkReturn ==
    /\ pcC = "loop"
    /\ start >= Len(text)
    /\ pcC' = "done"
    /\ UNCHANGED <<text, chunk_size, start, chunks, cuts>>
    /\ UNCHANGED <<varsU, varsS, varsT, varsK>>

\* Lines 20-22: the window reaches the end of the text: the rest is the last chunk
ChunkLast ==
    /\ pcC = "loop"
    /\ start < Len(text)
    /\ start + chunk_size >= Len(text)
    /\ chunks' = Append(chunks, Strip(Slice(text, start, Len(text))))
    /\ pcC' = "done"
    /\ UNCHANGED <<text, chunk_size, start, cuts>>
    /\ UNCHANGED <<varsU, varsS, varsT, varsK>>

\* Mutant: the cursor advances by chunk_size whatever the cut was
ChunkCut_FixedStride ==
    /\ pcC = "loop"
    /\ start < Len(text)
    /\ start + chunk_size < Len(text)
    /\ LET end == CutEnd(text, start, chunk_size)
           chunk == Strip(Slice(text, start, end))
       IN  /\ chunks' = IF chunk # <<>> THEN Append(chunks, chunk) ELSE chunks
           /\ start' = start + chunk_size
           /\ cuts' = Append(cuts, end)
    /\ UNCHANGED <<text, chunk_size, pcC>>
    /\ UNCHANGED <<varsU, varsS, varsT, varsK>>

\* Lines 24-53: the window is cut, its stripped text appended unless empty
ChunkCut ==
    /\ pcC = "loop"
    /\ start < Len(text)
    /\ start + chunk_size < Len(text)
    /\ LET end == CutEnd(text, start, chunk_size)
           chunk == Strip(Slice(text, start, end))
       IN  /\ chunks' = IF chunk # <<>> THEN Append(chunks, chunk) ELSE chunks
           /\ start' = end
           /\ cuts' = Append(cuts, end)
    /\ UNCHANGED <<text, chunk_size, pcC>>
    /\ UNCHANGED <<varsU, varsS, varsT, varsK>>

NextC ==
    \/ ChunkReturn
    \/ ChunkLast
    \/ ChunkCut

----------------------------------------------------------------------------
(* crawl4_mcp.py: crawl_single_page and smart_crawl_with_auto_sitemap.       *)
(* The crawler, the classifier, the sitemap functions, the crawl strategies  *)
(* and save_to_md are the environment: each call returns one of the values   *)
(* of its type or raises, chosen nondeterministically.                       *)

Tools == {"crawl_single_page", "smart_crawl_with_auto_sitemap"}

\* sitemap_urls = None, or a list
NoUrls == [given |-> FALSE, list |-> <<>>]

\* What is_txt(url) and is_sitemap(url) return, before they are called
NoClass == [is_txt |-> FALSE, is_sitemap |-> FALSE]

\* result of crawler.arun before the call returned
NoResult == [given |-> FALSE, success |-> FALSE, markdown |-> FALSE]

\* What a crawl strategy may return an element of: a dict with markdown and a
\* url, one with markdown and no url, one without markdown, not a dict
ResultKinds ==
    {[dict |-> TRUE, markdown |-> TRUE, has_url |-> TRUE, url |-> UrlC],
     [dict |-> TRUE, markdown |-> TRUE, has_url |-> FALSE, url |-> UrlC],
     [dict |-> TRUE, markdown |-> FALSE, has_url |-> TRUE, url |-> UrlC],
     [dict |-> FALSE, markdown |-> FALSE, has_url |-> FALSE, url |-> UrlC]}

ResultLists == SeqsUpTo(ResultKinds, MaxResults)

\* What parse_sitemap may return
UrlLists == SeqsUpTo(CallUrls, MaxResults)

\* save_to_md(url, markdown): the path of the file written for url
PathOf(u) == [md_of |-> u]

\* The messages str(e) of the exceptions, named after the step that raised
Steps == {"crawler", "classification", "fetch", "crawl_markdown_file",
          "parse_sitemap", "auto_get_sitemap_url", "crawl_batch",
          "crawl_recursive_internal_links", "save_to_md"}

\* The JSON the tools return
NoResponse ==
    [returned |-> FALSE, success |-> FALSE, url |-> UrlA, error |-> "",
     crawl_type |-> "", file_paths |-> <<>>]
Success(u, type, paths) ==
    [returned |-> TRUE, success |-> TRUE, url |-> u, error |-> "",
     crawl_type |-> type, file_paths |-> paths]
Failure(u, message) ==
    [returned |-> TRUE, success |-> FALSE, url |-> u, error |-> message,
     crawl_type |-> "", file_paths |-> <<>>]

InitT ==
    /\ tool = "none"
    /\ tool_url = UrlA
    /\ pcT = "idle"
    /\ branch = "unset"
    /\ url_class = NoClass
    /\ found_sitemap = "unset"
    /\ sitemap_urls = NoUrls
    /\ result = NoResult
    /\ crawl_results = <<>>
    /\ crawl_type = "unset"
    /\ file_paths = <<>>
    /\ next_result = 1
    /\ ran = <<>>
    /\ raised = "none"
    /\ logged = FALSE
    /\ response = NoResponse
    /\ propagated = "none"

\* What a step of a tool leaves alone besides the variables it names
ToolFrame == UNCHANGED <<varsU, varsS, varsC, varsK>>

\* A step inside the try raises: control goes to the except clause
Raise(step) ==
    /\ pcT' = "except"
    /\ raised' = step
    /\ UNCHANGED <<tool, tool_url, branch, url_class, found_sitemap, sitemap_urls, result,
                   crawl_results, crawl_type, file_paths, next_result, logged,
                   response, propagated>>

\* The tool returns r
ReturnJson(r) ==
    /\ pcT' = "done"
    /\ response' = r

\* A client calls one of the two tools
ToolCall ==
    /\ pcT = "idle"
    /\ tool' \in Tools
    /\ tool_url' \in CallUrls
    /\ pcT' = "crawler"
    /\ UNCHANGED <<branch, url_class, found_sitemap, sitemap_urls, result, crawl_results,
                   crawl_type, file_paths, next_result, ran, raised, logged,
                   response, propagated>>
    /\ ToolFrame

\* Lines 73 and 129: crawler = ctx.request_context.lifespan_context.crawler
GetCrawler ==
    /\ pcT = "crawler"
    /\ \/ /\ pcT' = IF tool = "crawl_single_page" THEN "arun" ELSE "classify"
          /\ UNCHANGED <<tool, tool_url, branch, url_class, found_sitemap, sitemap_urls,
                         result, crawl_results, crawl_type, file_paths,
                         next_result, raised, logged, response, propagated>>
       \/ Raise("crawler")
    /\ UNCHANGED ran
    /\ ToolFrame

\* Lines 75-95: the page is fetched; without success or without markdown the
\* tool returns a failure
Arun ==
    /\ pcT = "arun"
    /\ \/ \E s, m \in BOOLEAN :
            /\ result' = [given |-> TRUE, success |-> s, markdown |-> m]
            /\ IF s /\ m
               THEN pcT' = "save" /\ UNCHANGED response
               ELSE ReturnJson(Failure(tool_url,
                                       "No content found or crawl unsuccessful"))
            /\ UNCHANGED <<tool, tool_url, branch, url_class, found_sitemap, sitemap_urls,
                           crawl_results, crawl_type, file_paths, next_result,
                           raised, logged, propagated>>
       \/ Raise("fetch")
    /\ UNCHANGED ran
    /\ ToolFrame

\* Lines 83-86: the page is saved and the tool returns its path
SavePage ==
    /\ pcT = "save"
    /\ \/ /\ file_paths' = <<PathOf(tool_url)>>
          /\ ReturnJson(Success(tool_url, "", file_paths'))
          /\ UNCHANGED <<tool, tool_url, branch, url_class, found_sitemap, sitemap_urls,
                         result, crawl_results, crawl_type, next_result,
                         raised, logged, propagated>>
       \/ Raise("save_to_md")
    /\ UNCHANGED ran
    /\ ToolFrame

\* Lines 96-98: the except clause of crawl_single_page logs, then returns the
\* failure; an exception of the logging call leaves the tool
SinglePageExcept ==
    /\ pcT = "except"
    /\ tool = "crawl_single_page"
    /\ logged' = TRUE
    /\ \/ ReturnJson(Failure(tool_url, raised)) /\ UNCHANGED propagated
       \/ /\ pcT' = "done"
          /\ propagated' = "logging"
          /\ UNCHANGED response
    /\ UNCHANGED <<tool, tool_url, branch, url_class, found_sitemap, sitemap_urls, result,
                   crawl_results, crawl_type, file_paths, next_result, ran,
                   raised>>
    /\ ToolFrame

\* Lines 131, 134, 145: is_txt(url) decides first, then is_sitemap(url)
Classify ==
    /\ pcT = "classify"
    /\ \/ /\ \E txt, sm \in BOOLEAN :
                url_class' = [is_txt |-> txt, is_sitemap |-> sm]
          /\ branch' = IF url_class'.is_txt THEN "txt"
                       ELSE IF url_class'.is_sitemap THEN "sitemap"
                       ELSE "page"
          /\ pcT' = CASE branch' = "txt" -> "crawl_markdown_file"
                      [] branch' = "sitemap" -> "parse_sitemap"
                      [] OTHER -> "auto_get_sitemap_url"
          /\ UNCHANGED <<tool, tool_url, found_sitemap, sitemap_urls, result,
                         crawl_results, crawl_type, file_paths, next_result,
                         raised, logged, response, propagated>>
       \/ Raise("classification")
    /\ UNCHANGED ran
    /\ ToolFrame

\* What the call of a crawl strategy does: it returns a list and crawl_type
\* is assigned, or it raises
Strategy(name, type) ==
    /\ ran' = Append(ran, name)
    /\ \/ /\ crawl_results' \in ResultLists
          /\ crawl_type' = type
          /\ pcT' = "results"
          /\ UNCHANGED <<tool, tool_url, branch, url_class, found_sitemap, sitemap_urls,
                         result, file_paths, next_result, raised, logged,
                         response, propagated>>
       \/ Raise(name)
    /\ ToolFrame

\* Lines 132-133
CrawlMarkdownFile ==
    /\ pcT = "crawl_markdown_file"
    /\ Strategy("crawl_markdown_file", "text_file")

\* Lines 135-140: the sitemap the url names is parsed; an empty list is a failure
ParseSitemap ==
    /\ pcT = "parse_sitemap"
    /\ \/ /\ \E l \in UrlLists : sitemap_urls' = [given |-> TRUE, list |-> l]
          /\ IF sitemap_urls'.list = <<>>
             THEN ReturnJson(Failure(tool_url, "No URLs found in sitemap"))
             ELSE pcT' = "crawl_batch" /\ UNCHANGED response
          /\ UNCHANGED <<tool, tool_url, branch, url_class, found_sitemap, result,
                         crawl_results, crawl_type, file_paths, next_result,
                         raised, logged, propagated>>
       \/ Raise("parse_sitemap")
    /\ UNCHANGED ran
    /\ ToolFrame

\* Lines 141-144 and 154-157
CrawlBatch ==
    /\ pcT = "crawl_batch"
    /\ Strategy("crawl_batch",
                IF branch = "sitemap" THEN "sitemap" ELSE "auto_sitemap")

\* Lines 147-148: the site's sitemap is looked for
AutoGetSitemapUrl ==
    /\ pcT = "auto_get_sitemap_url"
    /\ \/ /\ found_sitemap' \in {None, "sitemap.xml"}
          /\ sitemap_urls' = NoUrls
          /\ pcT' = IF found_sitemap' # None THEN "parse_found"
                    ELSE "crawl_recursive_internal_links"
          /\ UNCHANGED <<tool, tool_url, branch, url_class, result, crawl_results,
                         crawl_type, file_paths, next_result, raised, logged,
                         response, propagated>>
       \/ Raise("auto_get_sitemap_url")
    /\ UNCHANGED ran
    /\ ToolFrame

\* Mutant: a sitemap that was found is crawled whatever its parse gave
ParseFound_AlwaysBatch ==
    /\ pcT = "parse_found"
    /\ \/ /\ \E l \in UrlLists : sitemap_urls' = [given |-> TRUE, list |-> l]
          /\ pcT' = "crawl_batch"
          /\ UNCHANGED <<tool, tool_url, branch, url_class, found_sitemap, result,
                         crawl_results, crawl_type, file_paths, next_result,
                         raised, logged, response, propagated>>
       \/ Raise("parse_sitemap")
    /\ UNCHANGED ran
    /\ ToolFrame

\* Lines 149-153 and 158: the sitemap found is parsed; line 153 chooses the
\* batch crawl when the list is not empty, the recursive crawl otherwise
ParseFound ==
    /\ pcT = "parse_found"
    /\ \/ /\ \E l \in UrlLists : sitemap_urls' = [given |-> TRUE, list |-> l]
          /\ pcT' = IF sitemap_urls'.list # <<>> THEN "crawl_batch"
                    ELSE "crawl_recursive_internal_links"
          /\ UNCHANGED <<tool, tool_url, branch, url_class, found_sitemap, result,
                         crawl_results, crawl_type, file_paths, next_result,
                         raised, logged, response, propagated>>
       \/ Raise("parse_sitemap")
    /\ UNCHANGED ran
    /\ ToolFrame

\* Lines 160-166
CrawlRecursive ==
    /\ pcT = "crawl_recursive_internal_links"
    /\ Strategy("crawl_recursive_internal_links", "webpage")

\* Lines 168-173: no results is a failure, else the export loop begins
Results ==
    /\ pcT = "results"
    /\ IF crawl_results = <<>>
       THEN /\ ReturnJson(Failure(tool_url, "No content found"))
            /\ UNCHANGED <<file_paths, next_result>>
       ELSE /\ file_paths' = <<>>
            /\ next_result' = 1
            /\ pcT' = "export"
            /\ UNCHANGED response
    /\ UNCHANGED <<tool, tool_url, branch, url_class, found_sitemap, sitemap_urls, result,
                   crawl_results, crawl_type, ran, raised, logged, propagated>>
    /\ ToolFrame

\* Lines 174-177: a dict with markdown is saved under its url, or the tool's
\* url when it has none; anything else is skipped
Export ==
    /\ pcT = "export"
    /\ next_result <= Len(crawl_results)
    /\ LET r == crawl_results[next_result]
       IN  \/ /\ file_paths' =
                    IF r.dict /\ r.markdown
                    THEN Append(file_paths,
                                PathOf(IF r.has_url THEN r.url ELSE tool_url))
                    ELSE file_paths
              /\ next_result' = next_result + 1
              /\ UNCHANGED <<tool, tool_url, pcT, branch, url_class, found_sitemap,
                             sitemap_urls, result, crawl_results, crawl_type,
                             raised, logged, response, propagated>>
           \/ /\ r.dict /\ r.markdown
              /\ Raise("save_to_md")
    /\ UNCHANGED ran
    /\ ToolFrame

\* Lines 179-187: the success response
ReturnSuccess ==
    /\ pcT = "export"
    /\ next_result > Len(crawl_results)
    /\ ReturnJson(Success(tool_url, crawl_type, file_paths))
    /\ UNCHANGED <<tool, tool_url, branch, url_class, found_sitemap, sitemap_urls, result,
                   crawl_results, crawl_type, file_paths, next_result, ran,
                   raised, logged, propagated>>
    /\ ToolFrame

\* Lines 188-189: the except clause of smart_crawl_with_auto_sitemap
SmartCrawlExcept ==
    /\ pcT = "except"
    /\ tool = "smart_crawl_with_auto_sitemap"
    /\ ReturnJson(Failure(tool_url, raised))
    /\ UNCHANGED <<tool, tool_url, branch, url_class, found_sitemap, sitemap_urls, result,
                   crawl_results, crawl_type, file_paths, next_result, ran,
                   raised, logged, propagated>>
    /\ ToolFrame

NextT ==
    \/ ToolCall
    \/ GetCrawler
    \/ Arun
    \/ SavePage
    \/ SinglePageExcept
    \/ Classify
    \/ CrawlMarkdownFile
    \/ ParseSitemap
    \/ CrawlBatch
    \/ AutoGetSitemapUrl
    \/ ParseFound
    \/ CrawlRecursive
    \/ Results
    \/ Export
    \/ ReturnSuccess
    \/ SmartCrawlExcept

----------------------------------------------------------------------------
(* The recursive link crawler crawl_recursive_internal_links(crawler,        *)
(* start_urls, max_depth, max_concurrent) that line 160 of crawl4_mcp.py     *)
(* calls: breadth-first by depth level, the fetches of a level admitted      *)
(* through a gate of max_concurrent places. The pages and their links are    *)
(* the environment: a fetch succeeds with some links or fails.               *)

\* The normalized URLs of the site crawled
Pages == 1..MaxPages

\* No page: the parent of a seed
NoPage == 0

\* No depth: of a URL that was not enqueued
NoDepth == -1

\* A URL no fetch of which has started
NotFetched == [starts |-> 0, depth |-> NoDepth]

\* A link of a fetched page: the page it names once normalized, and whether it
\* stays on the site and whether it carries a fragment
Links ==
    [page : Pages, same_site : BOOLEAN, fragment : BOOLEAN]

\* The links a fetched page may carry
LinkSets == {ls \in SUBSET Links : Cardinality(ls) <= MaxLinks}

\* The pages the links ls name that stay on the site and carry no fragment
Internal(ls) == {l.page : l \in {x \in ls : x.same_site /\ ~x.fragment}}

\* What is left of the links of a fetched page once they are filtered
InternalSets == {Internal(ls) : ls \in LinkSets}

InitK ==
    /\ seed_urls \in (SUBSET Pages) \ {{}}
    /\ max_depth \in 0..MaxDepth
    /\ max_concurrent \in 1..MaxConcurrent
    /\ visited = {}
    /\ depth = 0
    /\ level = seed_urls
    /\ pending = {}
    /\ in_flight = {}
    /\ next_level = {}
    /\ results_all = EmptyBag
    /\ fetched = [p \in Pages |-> NotFetched]
    /\ enqueued = [p \in Pages |-> NoDepth]
    /\ parent = [p \in Pages |-> NoPage]
    /\ rediscovered = {}
    /\ pcK = "level"

\* What a step of the crawl leaves alone besides the variables it names
CrawlFrame ==
    UNCHANGED <<seed_urls, max_depth, max_concurrent, varsU, varsS, varsC, varsT>>

\* Mutant: the URLs of a level are not marked visited when they are enqueued
EnqueueLevel_NotMarked ==
    /\ pcK = "level"
    /\ LET todo == level \ visited
       IN  IF todo = {} \/ depth > max_depth
           THEN /\ pcK' = "done"
                /\ UNCHANGED <<visited, pending, enqueued>>
           ELSE /\ visited' = visited
                /\ pending' = todo
                /\ enqueued' = [p \in Pages |->
                                    IF p \in todo THEN depth ELSE enqueued[p]]
                /\ pcK' = "fetching"
    /\ UNCHANGED <<depth, level, in_flight, next_level, results_all, fetched,
                   parent, rediscovered>>
    /\ CrawlFrame

\* A depth level begins: its not-yet-visited URLs are marked visited and wait
\* at the gate; the crawl ends when there are none or max_depth is exceeded
EnqueueLevel ==
    /\ pcK = "level"
    /\ LET todo == level \ visited
       IN  IF todo = {} \/ depth > max_depth
           THEN /\ pcK' = "done"
                /\ UNCHANGED <<visited, pending, enqueued>>
           ELSE /\ visited' = visited \cup todo
                /\ pending' = todo
                /\ enqueued' = [p \in Pages |->
                                    IF p \in todo THEN depth ELSE enqueued[p]]
                /\ pcK' = "fetching"
    /\ UNCHANGED <<depth, level, in_flight, next_level, results_all, fetched,
                   parent, rediscovered>>
    /\ CrawlFrame

\* Mutant: the gate admits whatever the number of fetches in flight
Admit_NoGate(u) ==
    /\ pcK = "fetching"
    /\ u \in pending
    /\ pending' = pending \ {u}
    /\ in_flight' = in_flight \cup {u}
    /\ fetched' = [fetched EXCEPT ![u] =
                       [starts |-> fetched[u].starts + 1, depth |-> depth]]
    /\ UNCHANGED <<visited, depth, level, next_level, results_all, enqueued,
                   parent, rediscovered, pcK>>
    /\ CrawlFrame

\* The gate admits a waiting URL when a place is free: its fetch starts
Admit(u) ==
    /\ pcK = "fetching"
    /\ u \in pending
    /\ Cardinality(in_flight) < max_concurrent
    /\ pending' = pending \ {u}
    /\ in_flight' = in_flight \cup {u}
    /\ fetched' = [fetched EXCEPT ![u] =
                       [starts |-> fetched[u].starts + 1, depth |-> depth]]
    /\ UNCHANGED <<visited, depth, level, next_level, results_all, enqueued,
                   parent, rediscovered, pcK>>
    /\ CrawlFrame

\* A fetch succeeds: the page joins the results; below max_depth the pages its
\* same-site, non-fragment links name seed the next level unless visited
FetchSucceeds(u, named) ==
    /\ pcK = "fetching"
    /\ u \in in_flight
    /\ in_flight' = in_flight \ {u}
    /\ results_all' = results_all (+) SetToBag({u})
    /\ LET found == IF depth < max_depth THEN named \ visited ELSE {}
       IN  /\ next_level' = next_level \cup found
           /\ parent' = [p \in Pages |->
                            IF p \in found \ next_level THEN u ELSE parent[p]]
    /\ rediscovered' = rediscovered \cup (named \cap (in_flight \ {u}))
    /\ UNCHANGED <<visited, depth, level, pending, fetched, enqueued, pcK>>
    /\ CrawlFrame

\* A fetch fails: the page is left out of the results, the crawl goes on
FetchFails(u) ==
    /\ pcK = "fetching"
    /\ u \in in_flight
    /\ in_flight' = in_flight \ {u}
    /\ UNCHANGED <<visited, depth, level, pending, next_level, results_all,
                   fetched, enqueued, parent, rediscovered, pcK>>
    /\ CrawlFrame

\* Mutant: the next level begins as soon as nothing waits at the gate
LevelResolved_NoBarrier ==
    /\ pcK = "fetching"
    /\ pending = {}
    /\ depth' = depth + 1
    /\ level' = next_level
    /\ next_level' = {}
    /\ pcK' = "level"
    /\ UNCHANGED <<visited, pending, in_flight, results_all, fetched, enqueued,
                   parent, rediscovered>>
    /\ CrawlFrame

\* Every fetch of the level has resolved: the next level begins
LevelResolved ==
    /\ pcK = "fetching"
    /\ pending = {}
    /\ in_flight = {}
    /\ depth' = depth + 1
    /\ level' = next_level
    /\ next_level' = {}
    /\ pcK' = "level"
    /\ UNCHANGED <<visited, pending, in_flight, results_all, fetched, enqueued,
                   parent, rediscovered>>
    /\ CrawlFrame

NextK ==
    \/ EnqueueLevel
    \/ \E u \in Pages : Admit(u)
    \/ \E u \in Pages, named \in InternalSets : FetchSucceeds(u, named)
    \/ \E u \in Pages : FetchFails(u)
    \/ LevelResolved

----------------------------------------------------------------------------
(* Each part of the program runs with the other parts at rest *)

RestC ==
    /\ text = <<>>
    /\ chunk_size = 1
    /\ start = 0
    /\ chunks = <<>>
    /\ cuts = <<>>
    /\ pcC = "rest"

RestU ==
    /\ crawled_pages = EmptyBag
    /\ op = "none"
    /\ args = [urls |-> <<>>, chunk_numbers |-> <<>>, contents |-> <<>>,
               metadatas |-> <<>>, embeddings |-> NoEmbeddings, batch_size |-> 1]
    /\ calls = <<>>
    /\ pcU = "rest"
    /\ unique_urls = {}
    /\ todo_urls = {}
    /\ i = 0
    /\ batch_data = <<>>
    /\ retry = 0
    /\ retry_delay = initial_retry_delay
    /\ rec_k = 1
    /\ exc = "none"
    /\ bulk_del = "none"
    /\ del_log = NoLog
    /\ bulk_log = <<>>
    /\ sleeps = <<>>
    /\ ind_log = <<>>
    /\ issued = {}
    /\ stored = {}
    /\ store_after = <<>>
    /\ effective = TRUE

RestS ==
    /\ sources = EmptyBag
    /\ unique_key = TRUE
    /\ now = 1
    /\ pcS = [c \in Callers |-> "rest"]
    /\ sargs = [c \in Callers |->
                   [source_id |-> SourceIdOf(UrlA), summary |-> "s1", word_count |-> 10]]
    /\ result_data = [c \in Callers |-> "none"]
    /\ outcome = [c \in Callers |-> "none"]
    /\ began = [c \in Callers |-> {}]

RestT ==
    /\ tool = "none"
    /\ tool_url = UrlA
    /\ pcT = "rest"
    /\ branch = "unset"
    /\ url_class = NoClass
    /\ found_sitemap = "unset"
    /\ sitemap_urls = NoUrls
    /\ result = NoResult
    /\ crawl_results = <<>>
    /\ crawl_type = "unset"
    /\ file_paths = <<>>
    /\ next_result = 1
    /\ ran = <<>>
    /\ raised = "none"
    /\ logged = FALSE
    /\ response = NoResponse
    /\ propagated = "none"

RestK ==
    /\ seed_urls = {}
    /\ max_depth = 0
    /\ max_concurrent = 1
    /\ visited = {}
    /\ depth = 0
    /\ level = {}
    /\ pending = {}
    /\ in_flight = {}
    /\ next_level = {}
    /\ results_all = EmptyBag
    /\ fetched = [p \in Pages |-> NotFetched]
    /\ enqueued = [p \in Pages |-> NoDepth]
    /\ parent = [p \in Pages |-> NoPage]
    /\ rediscovered = {}
    /\ pcK = "rest"

InitUpsert == InitU /\ RestS /\ RestC /\ RestT /\ RestK
SpecUpsert == InitUpsert /\ [][NextU]_vars

InitSource == InitS /\ RestU /\ RestC /\ RestT /\ RestK
SpecSource == InitSource /\ [][NextS]_vars

InitChunk == InitC /\ RestU /\ RestS /\ RestT /\ RestK
SpecChunk == InitChunk /\ [][NextC]_vars

InitTool == InitT /\ RestU /\ RestS /\ RestC /\ RestK
SpecTool == InitTool /\ [][NextT]_vars

InitCrawl == InitK /\ RestU /\ RestS /\ RestC /\ RestT
SpecCrawl == InitCrawl /\ [][NextK]_vars

\* The fetches are tasks of one event loop and every fetch resolves: a step of
\* the crawl that can be taken is eventually taken
SpecCrawlFair == SpecCrawl /\ WF_vars(NextK)

\* The persistence layer: either module's functions
InitPersist == InitUpsert \/ InitSource
NextPersist == NextU \/ NextS
SpecPersist == InitPersist /\ [][NextPersist]_vars

----------------------------------------------------------------------------
(* Claims about crawled_pages.py *)

ThreeFailures == <<"failed", "failed", "failed">>

\* Both calls are over
CalledTwice == op = "add" /\ Len(store_after) = 2

AtFirstInsert == op = "add" /\ pcU = "insert" /\ i = 0 /\ bulk_log = <<>>

C3_PerUrlFallback ==
    /\ bulk_del \in {"none", "ok"} => \A u \in CallUrls : del_log[u] = <<>>
    /\ \A u \in CallUrls :
          /\ Len(del_log[u]) <= 1
          /\ del_log[u] # <<>> => u \in unique_urls
    /\ pcU = "fallback" => todo_urls = {u \in unique_urls : del_log[u] = <<>>}
    /\ (bulk_del = "failed" /\ pcU \notin {"delete", "fallback"}) =>
          \A u \in unique_urls : Len(del_log[u]) = 1

\* The bulk delete failed and so did the per-URL delete of each of two URLs:
\* the first failure did not stop the second delete
C3_Witness ==
    /\ bulk_del = "failed"
    /\ pcU \in {"batch", "done"}
    /\ unique_urls = {UrlA, UrlB}
    /\ del_log[UrlA] = <<"failed">>
    /\ del_log[UrlB] = <<"failed">>

Failures(log) == Cardinality({k \in DOMAIN log : log[k] = "failed"})

\* C4: a batch has at most 3 bulk inserts, none after a successful one, and the
\* waits after its failed bulk inserts are 1, then 2.
C4_RetryBackoff ==
    /\ Len(bulk_log) <= 3
    /\ \A k \in DOMAIN bulk_log : k < Len(bulk_log) => bulk_log[k] = "failed"
    /\ sleeps = SubSeq(<<1, 2>>, 1, Len(sleeps))
    /\ Len(sleeps) = IF pcU = "sleep" THEN Failures(bulk_log) - 1
                     ELSE Min(Failures(bulk_log), 2)

\* Two failures, two waits, and the third bulk insert stored the batch
C4_Witness ==
    /\ bulk_log = <<"failed", "failed", "ok">>
    /\ sleeps = <<1, 2>>
    /\ pcU = "batch"

\* C5: rows are inserted individually only after three failed bulk inserts of
\* their batch, in order and once each; when the batch is over every row of it
\* had its individual insert, whatever the outcome of the others; and when the
\* call returns an insert was issued for every row of every batch.
C5_IndividualFallback ==
    /\ pcU = "individual" => bulk_log = ThreeFailures
    /\ \A j \in DOMAIN ind_log :
          /\ Len(ind_log[j]) <= 1
          /\ ind_log[j] # <<>> => bulk_log = ThreeFailures
    /\ pcU = "individual" =>
          \A j \in DOMAIN ind_log : (j < rec_k) <=> (Len(ind_log[j]) = 1)
    /\ (bulk_log = ThreeFailures /\ pcU \in {"batch", "done", "raised"}) =>
          \A j \in DOMAIN ind_log : Len(ind_log[j]) = 1
    /\ (op = "add" /\ pcU = "done") => /\ issued = 1..Len(args.contents)
                                        /\ stored \subseteq issued

\* The one row of the first batch failed individually; the second batch was
\* processed all the same and its row was stored individually
C5_Witness ==
    /\ op = "add"
    /\ pcU = "done"
    /\ args.batch_size = 1
    /\ issued = {1, 2}
    /\ stored = {2}
    /\ bulk_log = ThreeFailures
    /\ ind_log = << <<"ok">> >>

\* C6: no failure of a store operation leaves add_documents_to_supabase,
\* batch_delete_crawled_pages_by_urls or update_source_info as an exception:
\* the only exception that leaves a call is the IndexError of argument lists of
\* different lengths, and every call of update_source_info that is over returned.
C6_NoFailurePropagates ==
    /\ pcU = "raised" <=> exc = "IndexError"
    /\ exc \in {"none", "IndexError"}
    /\ \A c \in Callers : pcS[c] \in {"rest", "idle", "update", "insert", "done"}

\* A call returned although the bulk delete, a per-URL delete, three bulk
\* inserts and an individual insert had failed
C6_Witness ==
    /\ op = "add"
    /\ pcU = "done"
    /\ bulk_del = "failed"
    /\ \E u \in unique_urls : del_log[u] = <<"failed">>
    /\ bulk_log = ThreeFailures
    /\ \E j \in DOMAIN ind_log : ind_log[j] = <<"failed">>

----------------------------------------------------------------------------
(* Claims about sources.py *)

\* Caller c had returned when d was called, and both name the same source
InSequence(c, d) ==
    /\ c # d
    /\ c \in began[d]
    /\ pcS[d] = "done"
    /\ sargs[c].source_id = sargs[d].source_id

\* The table holds exactly one row of the source of caller d, with d's values
OneRowOf(d) ==
    /\ CountOf(sources, sargs[d].source_id) = 1
    /\ \A r \in RowsOf(sources, sargs[d].source_id) :
          /\ r.summary = sargs[d].summary
          /\ r.total_word_count = sargs[d].word_count

BothMissed(c, d) ==
    /\ c # d
    /\ sargs[c].source_id = sargs[d].source_id
    /\ pcS[c] = "done" /\ pcS[d] = "done"
    /\ result_data[c] = "empty" /\ result_data[d] = "empty"

\* C8: when the updates of two calls for one source_id both matched no row,
\* both calls go on to insert, and the table ends with two rows of the
\* source_id, or with at most one and a call whose insert was rejected.
C8_UpsertRace ==
    \A c, d \in Callers :
        BothMissed(c, d) =>
            \/ CountOf(sources, sargs[c].source_id) = 2
            \/ /\ CountOf(sources, sargs[c].source_id) <= 1
               /\ \E e \in {c, d} : outcome[e] = "error"

\* Two overlapping calls for a source without a row: both updates matched no
\* row, c1 created the row, the insert of c2 was rejected by the key and its
\* summary is lost
C8_Witness ==
    /\ BothMissed("c1", "c2")
    /\ began["c1"] = {} /\ began["c2"] = {}
    /\ unique_key
    /\ outcome["c1"] = "created"
    /\ outcome["c2"] = "error"
    /\ sargs["c1"].summary # sargs["c2"].summary
    /\ OneRowOf("c1")

\* The same race on a table without a unique key leaves two rows
C8_TwoRows ==
    /\ BothMissed("c1", "c2")
    /\ began["c1"] = {} /\ began["c2"] = {}
    /\ outcome["c1"] = "created"
    /\ outcome["c2"] = "created"
    /\ CountOf(sources, sargs["c1"].source_id) = 2

----------------------------------------------------------------------------
(* Claims about chunk_util.py *)

\* s with its whitespace removed
NoWhitespace(s) == SelectSeq(s, LAMBDA ch : ch \notin Whitespace)

\* C9 as stated: no chunk of the returned list is empty.
C9_NoEmptyChunk ==
    pcC = "done" => \A k \in DOMAIN chunks : chunks[k] # <<>>

\* C10: the chunks appended so far, concatenated and without whitespace, are the
\* text before the cursor without whitespace; when the function returns they
\* are the whole text without whitespace.
C10_Reconstructs ==
    /\ pcC = "loop" =>
          NoWhitespace(Concat(chunks)) = NoWhitespace(Slice(text, 0, start))
    /\ pcC = "done" => NoWhitespace(Concat(chunks)) = NoWhitespace(text)

\* Three chunks or more, a cut made before the edge of its window, and
\* whitespace trimmed at a boundary
C10_Witness ==
    /\ pcC = "done"
    /\ Len(chunks) >= 3
    /\ \E k \in DOMAIN cuts :
          cuts[k] < (IF k = 1 THEN 0 ELSE cuts[k - 1]) + chunk_size
    /\ Len(Concat(chunks)) < Len(text)
    /\ NoWhitespace(Concat(chunks)) = NoWhitespace(text)

\* The boundary tokens a cut may be made at
BoundaryTokens ==
    {fence, paragraph_break, en_sentence_sep}
        \cup {<<cn_sentence_seps[k]>> : k \in DOMAIN cn_sentence_seps}

LongestBoundaryToken == Max({Len(tok) : tok \in BoundaryTokens})

\* The chunks that are not the final one: all of them while the loop runs,
\* all but the one the last window gave once the function has returned
NonFinal ==
    IF pcC = "done" /\ start < Len(text)
    THEN 1..(Len(chunks) - 1)
    ELSE DOMAIN chunks

\* C11: every chunk other than the final one is at most chunk_size plus the
\* longest boundary token long.
C11_LengthBound ==
    \A k \in NonFinal : Len(chunks[k]) <= chunk_size + LongestBoundaryToken

\* A call that returned three chunks or more, one of them non-final and as
\* long as the window, another cut after a sentence terminator
C11_Witness ==
    /\ pcC = "done"
    /\ Len(chunks) >= 3
    /\ \E k \in NonFinal : Len(chunks[k]) = chunk_size
    /\ \E k \in NonFinal :
          /\ Len(chunks[k]) < chunk_size
          /\ chunks[k][Len(chunks[k])] \in {".", CnPeriod}

\* Where the k-th cut window begins, and the window itself
WindowStart(k) == IF k = 1 THEN 0 ELSE cuts[k - 1]
Window(k) == Slice(text, WindowStart(k), WindowStart(k) + chunk_size)

\* The 0-based places of tok in w that lie past 30% of the window
Candidates(w, tok) ==
    {idx \in 0..(Len(w) - Len(tok)) :
        /\ \A m \in 1..Len(tok) : w[idx + m] = tok[m]
        /\ Past30(idx, chunk_size)}

FenceCandidates(w) == Candidates(w, fence)
ParagraphCandidates(w) == Candidates(w, paragraph_break)
LatinCandidates(w) == Candidates(w, en_sentence_sep)
ChineseCandidates(w) ==
    UNION {Candidates(w, <<cn_sentence_seps[k]>>) : k \in DOMAIN cn_sentence_seps}
SentenceCandidates(w) == LatinCandidates(w) \cup ChineseCandidates(w)

\* How many of the three boundary types have a candidate in w
TypesPresent(w) ==
    Cardinality({ty \in {"fence", "paragraph", "sentence"} :
        \/ ty = "fence" /\ FenceCandidates(w) # {}
        \/ ty = "paragraph" /\ ParagraphCandidates(w) # {}
        \/ ty = "sentence" /\ SentenceCandidates(w) # {}})

\* C12: in a non-final window where two or more boundary types have a candidate
\* past 30%, the cut is at a fence when a fence is among them, else at a
\* paragraph break, wherever the lower-priority candidates lie.
C12_Priority ==
    \A k \in DOMAIN cuts :
        LET w == Window(k)
            at == cuts[k] - WindowStart(k)
        IN  TypesPresent(w) >= 2 =>
                IF FenceCandidates(w) # {}
                THEN at \in FenceCandidates(w)
                ELSE at \in ParagraphCandidates(w)

\* A window was cut at a fence although a paragraph break past 30% lay later
\* in it
C12_Witness ==
    \E k \in DOMAIN cuts :
        LET w == Window(k)
            at == cuts[k] - WindowStart(k)
        IN  /\ at \in FenceCandidates(w)
            /\ \E p \in ParagraphCandidates(w) : p > at

\* Where the claim of C13 puts the cut of window w, from the window's start
SentenceCut(w) ==
    LET later == Max(SentenceCandidates(w))
    IN  IF SentenceCandidates(w) = {} THEN chunk_size
        ELSE IF later \in LatinCandidates(w) THEN later + Len(en_sentence_sep)
        ELSE later + 1

\* C13 as stated: a non-final window with no fence and no paragraph break past 30%
\* is cut right after the later of its last Chinese mark and its last Latin
\* terminator when one lies past 30%, and at the window edge otherwise.
C13_SentenceCut ==
    \A k \in DOMAIN cuts :
        LET w == Window(k)
        IN  (FenceCandidates(w) = {} /\ ParagraphCandidates(w) = {}) =>
                cuts[k] - WindowStart(k) = SentenceCut(w)

\* The documented example has been chunked
ExampleDone ==
    /\ pcC = "done"
    /\ text = Example.text
    /\ chunk_size = Example.chunk_size

\* C14 as stated: the example returns "abcdefghij." and "klmno".
C14_Example_Original ==
    ExampleDone =>
        chunks = << <<"a", "b", "c", "d", "e", "f", "g", "h", "i", "j", ".">>,
                    <<"k", "l", "m", "n", "o">> >>

\* C14, amended: the example returns "abcdefghij" and ". klmno": the first
\* window is the ten letters, holds no terminator and is cut at its edge.
C14_Example ==
    ExampleDone =>
        chunks = << <<"a", "b", "c", "d", "e", "f", "g", "h", "i", "j">>,
                    <<".", SP, "k", "l", "m", "n", "o">> >>

\* The example returned, after one cut at the edge of the first window
C14_Witness ==
    /\ ExampleDone
    /\ cuts = <<Example.chunk_size>>
    /\ Len(chunks) = 2

\* C20: smart_chunk_markdown terminates: every iteration that does not exit
\* moves start forward by 1 to chunk_size characters (each cut ends past the
\* start of its window and no further than its edge, and the cursor is where
\* the last cut ended), so there are never more cuts than characters.
C20_Terminates ==
    /\ \A k \in DOMAIN cuts :
          /\ WindowStart(k) < cuts[k]
          /\ cuts[k] <= WindowStart(k) + chunk_size
    /\ start = (IF cuts = <<>> THEN 0 ELSE cuts[Len(cuts)])
    /\ Len(cuts) <= Len(text)

\* The function returned after three cuts or more, one made before the edge
\* of its window and one at the edge
C20_Witness ==
    /\ pcC = "done"
    /\ Len(cuts) >= 3
    /\ \E k \in DOMAIN cuts : cuts[k] - WindowStart(k) < chunk_size
    /\ \E k \in DOMAIN cuts : cuts[k] - WindowStart(k) = chunk_size

----------------------------------------------------------------------------
(* Claims about crawl4_mcp.py *)

\* C15 as stated: every call of crawl_single_page and of
\* smart_crawl_with_auto_sitemap returns a response and no exception leaves it;
\* when a step inside it raised, the response is the failure with the message
\* of that exception.
C15_StructuredResponse ==
    pcT = "done" =>
        /\ propagated = "none"
        /\ response.returned
        /\ raised # "none" =>
              /\ ~response.success
              /\ response.error = raised

\* The strategy and the branch a crawl_type stands for
StrategyOf(type) ==
    CASE type = "text_file" -> [name |-> "crawl_markdown_file", branch |-> "txt"]
      [] type = "sitemap" -> [name |-> "crawl_batch", branch |-> "sitemap"]
      [] type = "auto_sitemap" -> [name |-> "crawl_batch", branch |-> "page"]
      [] type = "webpage" ->
            [name |-> "crawl_recursive_internal_links", branch |-> "page"]
      [] OTHER -> [name |-> "none", branch |-> "none"]

\* C19: a call of smart_crawl_with_auto_sitemap runs at most one crawl strategy;
\* the url is taken for a text file first, for a sitemap second, for a page
\* last; the text-file crawl runs only for a text file, the batch crawl only
\* for a sitemap or a page, the recursive crawl only for a page; for a page, the recursive
\* crawl has run when the call is over if and only if discovery returned none
\* or the sitemap found parsed to an empty list; and the crawl_type of a
\* success response names the strategy that ran.
C19_OneStrategy ==
    /\ Len(ran) <= 1
    /\ branch # "unset" =>
          branch = (IF url_class.is_txt THEN "txt"
                    ELSE IF url_class.is_sitemap THEN "sitemap"
                    ELSE "page")
    /\ \A k \in DOMAIN ran :
          CASE ran[k] = "crawl_markdown_file" -> branch = "txt"
            [] ran[k] = "crawl_batch" -> branch \in {"sitemap", "page"}
            [] OTHER -> branch = "page"
    /\ (pcT = "done" /\ branch = "page") =>
          (ran = <<"crawl_recursive_internal_links">>
              <=> \/ found_sitemap = None
                  \/ sitemap_urls.given /\ sitemap_urls.list = <<>>)
    /\ (tool = "smart_crawl_with_auto_sitemap" /\ response.returned
            /\ response.success) =>
          /\ ran = <<StrategyOf(response.crawl_type).name>>
          /\ branch = StrategyOf(response.crawl_type).branch

\* A page whose sitemap was found and parsed to an empty list: the recursive
\* crawl alone ran and the success response says webpage
C19_Witness ==
    /\ pcT = "done"
    /\ branch = "page"
    /\ found_sitemap # None
    /\ sitemap_urls.given /\ sitemap_urls.list = <<>>
    /\ ran = <<"crawl_recursive_internal_links">>
    /\ response.success
    /\ response.crawl_type = "webpage"
    /\ Len(response.file_paths) = 2

----------------------------------------------------------------------------
(* Claims about the recursive link crawler *)

\* The fetch of p has started and has resolved
Resolved(p) == fetched[p].starts >= 1 /\ p \notin in_flight

\* C16: a crawl starts at most one fetch of each normalized URL, also when the
\* links of a sibling page name a URL whose fetch is still in flight, and
\* every URL is at most once in the result.
C16_FetchedOnce ==
    \A p \in Pages :
        /\ fetched[p].starts <= 1
        /\ CopiesIn(p, results_all) <= 1

\* A crawl is over in which a page named a sibling whose fetch was in flight,
\* the sibling and two more pages are in the result
C16_Witness ==
    /\ pcK = "done"
    /\ Cardinality(BagToSet(results_all)) >= 3
    /\ \E p \in rediscovered : BagIn(p, results_all)

\* C17: at every moment at most max_concurrent fetches are in flight, and the
\* crawl comes to where every URL that was enqueued at a level, and so waited
\* at the gate, has been fetched and its fetch has resolved.
C17_GateBoundsAdmission ==
    /\ [](Cardinality(in_flight) <= max_concurrent)
    /\ [](pending \subseteq {p \in Pages : enqueued[p] # NoDepth})
    /\ <>[](\A p \in Pages : enqueued[p] # NoDepth => Resolved(p))

\* The gate is full, of more than one fetch, while a URL of the level waits
C17_Witness ==
    /\ pcK = "fetching"
    /\ pending # {}
    /\ max_concurrent > 1
    /\ Cardinality(in_flight) = max_concurrent

\* C18: no fetch starts at a depth above max_depth; a seed is fetched at depth
\* 0 and any other URL one level below the successfully fetched page it was
\* discovered from; and once a fetch of depth N+1 has started, every URL
\* enqueued at depth N or less has been fetched and its fetch has resolved.
C18_DepthAndBarrier ==
    \A p \in Pages :
        LET d == fetched[p].depth
        IN  fetched[p].starts >= 1 =>
                /\ d <= max_depth
                /\ d = enqueued[p]
                /\ p \in seed_urls => d = 0
                /\ p \notin seed_urls =>
                      /\ d >= 1
                      /\ parent[p] # NoPage
                      /\ fetched[parent[p]].depth = d - 1
                      /\ BagIn(parent[p], results_all)
                /\ \A q \in Pages :
                      (enqueued[q] # NoDepth /\ enqueued[q] < d) => Resolved(q)

\* A crawl is over that fetched two seeds at depth 0 and then a page they
\* link to at depth 1, its max_depth
C18_Witness ==
    /\ pcK = "done"
    /\ max_depth = 1
    /\ Cardinality(seed_urls) = 2
    /\ \E p \in Pages : fetched[p].starts = 1 /\ fetched[p].depth = max_depth

====
